---- MODULE Spec2Model ----
(***************************************************************************)
(* A model of the video-gen backend: the Express router                    *)
(* (routes/video.router.ts), the generation orchestrator                   *)
(* (services/veoService.ts), the S3 gateway (services/s3service.ts) and    *)
(* the Mongoose video model.                                               *)
(*                                                                         *)
(* Three specifications share the module:                                  *)
(*   SpecValidate  the POST /generate entry (validateGenerationRequest and *)
(*                 the handler's 400 / 500 mapping) applied to one body;   *)
(*   SpecList      GET /list over a metadata store;                        *)
(*   Spec          two concurrent POST /generate requests, one step per    *)
(*                 await of the handler and of the orchestrator.           *)
(***************************************************************************)
EXTENDS Integers, Sequences, FiniteSets, TLC

(***************************************************************************)
(* JavaScript values.  A string is a sequence of runs [c, n]: n characters *)
(* of class c, "ws" (whitespace) or "ch" (anything else).  Length and trim *)
(* are computed on the runs.                                               *)
(***************************************************************************)
Undefined == [t |-> "undefined"]
Null == [t |-> "null"]
NumV(v) == [t |-> "number", v |-> v]
StrV(s) == [t |-> "string", s |-> s]
Ws(n) == [c |-> "ws", n |-> n]
Ch(n) == [c |-> "ch", n |-> n]

RECURSIVE StrLen(_)
StrLen(s) == IF s = <<>> THEN 0 ELSE Head(s).n + StrLen(Tail(s))

RECURSIVE TrimStart(_)
TrimStart(s) ==
  IF s = <<>> THEN <<>>
  ELSE IF Head(s).c = "ws" THEN TrimStart(Tail(s)) ELSE s

RECURSIVE TrimEnd(_)
TrimEnd(s) ==
  IF s = <<>> THEN <<>>
  ELSE IF s[Len(s)].c = "ws" THEN TrimEnd(SubSeq(s, 1, Len(s) - 1)) ELSE s

\* String.prototype.trim
Trim(s) == TrimEnd(TrimStart(s))

\* A query-string value is a string given character by character.
CharsV(cs) == [t |-> "string", chars |-> cs]
NaN == [t |-> "number", nan |-> TRUE]
IsNaN(v) == "nan" \in DOMAIN v

\* ToBoolean: undefined, null, 0, NaN and "" are falsy.  (A string given by
\* its parts rather than by runs or characters is a file name, empty when its
\* name is, or a URI or a time stamp, never empty.)
Truthy(v) ==
  CASE v.t = "undefined" -> FALSE
    [] v.t = "null" -> FALSE
    [] v.t = "number" -> IF IsNaN(v) THEN FALSE ELSE v.v # 0
    [] v.t = "string" ->
         IF "s" \in DOMAIN v THEN StrLen(v.s) # 0
         ELSE IF "chars" \in DOMAIN v THEN v.chars # <<>>
         ELSE IF "name" \in DOMAIN v THEN v.name # ""
         ELSE TRUE
    [] OTHER -> TRUE

\* typeof: null is an object.
TypeOf(v) == IF v.t = "null" THEN "object" ELSE v.t

MaxPromptLength == 1000

(***************************************************************************)
(* Number(string), Math.min and Math.max, over the integers and NaN.       *)
(***************************************************************************)
DigitChars == <<"0", "1", "2", "3", "4", "5", "6", "7", "8", "9">>
IsDigit(c) == \E i \in DOMAIN DigitChars : DigitChars[i] = c
DigitValue(c) == (CHOOSE i \in DOMAIN DigitChars : DigitChars[i] = c) - 1

RECURSIVE StripStart(_)
StripStart(cs) ==
  IF cs # <<>> /\ Head(cs) = " " THEN StripStart(Tail(cs)) ELSE cs
RECURSIVE StripEnd(_)
StripEnd(cs) ==
  IF cs # <<>> /\ cs[Len(cs)] = " " THEN StripEnd(SubSeq(cs, 1, Len(cs) - 1)) ELSE cs

RECURSIVE DigitsValue(_, _)
DigitsValue(cs, acc) ==
  IF cs = <<>> THEN acc ELSE DigitsValue(Tail(cs), 10 * acc + DigitValue(Head(cs)))

\* Number(value) for a string of an optionally signed decimal integer, blank
\* (0) or anything else (NaN); an array of several values converts to NaN.
ToNumber(v) ==
  IF v.t # "string" THEN NaN
  ELSE LET cs == StripEnd(StripStart(v.chars))
           signed == cs # <<>> /\ Head(cs) \in {"-", "+"}
           ds == IF signed THEN Tail(cs) ELSE cs
       IN IF cs = <<>> THEN NumV(0)
          ELSE IF ds = <<>> \/ \E i \in DOMAIN ds : ~IsDigit(ds[i]) THEN NaN
          ELSE IF signed /\ Head(cs) = "-" THEN NumV(0 - DigitsValue(ds, 0))
          ELSE NumV(DigitsValue(ds, 0))

MathMin(a, b) ==
  IF IsNaN(a) \/ IsNaN(b) THEN NaN ELSE IF a.v <= b.v THEN a ELSE b
MathMax(a, b) ==
  IF IsNaN(a) \/ IsNaN(b) THEN NaN ELSE IF a.v >= b.v THEN a ELSE b

MinExpiresIn == 60
MaxExpiresIn == 86400
DefaultExpiresIn == 3600

\* The clamp with min and max exchanged.
ExpiresIn_Swapped(expiresInRaw) ==
  IF Truthy(expiresInRaw)
  THEN MathMin(NumV(MinExpiresIn), MathMax(NumV(MaxExpiresIn), ToNumber(expiresInRaw)))
  ELSE NumV(DefaultExpiresIn)

\* The TTL GET /list signs with (video.router.ts:25-28).
ExpiresIn(expiresInRaw) ==
  IF Truthy(expiresInRaw)
  THEN MathMax(NumV(MinExpiresIn), MathMin(NumV(MaxExpiresIn), ToNumber(expiresInRaw)))
  ELSE NumV(DefaultExpiresIn)

\* A parsed JSON object body with the four fields the handler destructures.
Body(prompt, duration, quality, userId) ==
  [t |-> "object", prompt |-> prompt, duration |-> duration,
   quality |-> quality, userId |-> userId]

\* userId?.trim(): undefined for undefined and null, the trimmed string for
\* a string, and a TypeError for any other value (it has no trim method).
OptionalTrimThrows(v) == v.t \notin {"undefined", "null", "string"}
OptionalTrim(v) == IF v.t = "string" THEN StrV(Trim(v.s)) ELSE Undefined

ErrBodyRequired == <<"Request body is required">>
ErrPromptRequired == <<"Prompt is required and must be a non-empty string">>
ErrPromptTooLong == <<"Prompt must be less than 1000 characters">>
ErrNotAFunction == <<"userId?.trim is not a function">>

\* validateGenerationRequest without the test of the trimmed prompt's length:
\* a whitespace-only prompt passes.
validateGenerationRequest_NoTrimTest(body) ==
  IF ~Truthy(body) \/ TypeOf(body) # "object"
  THEN [kind |-> "invalid", error |-> ErrBodyRequired]
  ELSE IF ~Truthy(body.prompt) \/ TypeOf(body.prompt) # "string"
  THEN [kind |-> "invalid", error |-> ErrPromptRequired]
  ELSE IF StrLen(body.prompt.s) > MaxPromptLength
  THEN [kind |-> "invalid", error |-> ErrPromptTooLong]
  ELSE IF OptionalTrimThrows(body.userId)
  THEN [kind |-> "throw", error |-> ErrNotAFunction]
  ELSE [kind |-> "valid",
        data |-> [prompt |-> Trim(body.prompt.s), duration |-> body.duration,
                  quality |-> body.quality, userId |-> OptionalTrim(body.userId)]]

\* validateGenerationRequest: kind "invalid" with the error, "valid" with the
\* request data, or "throw" when building the data throws.
validateGenerationRequest(body) ==
  IF ~Truthy(body) \/ TypeOf(body) # "object"
  THEN [kind |-> "invalid", error |-> ErrBodyRequired]
  ELSE IF ~Truthy(body.prompt) \/ TypeOf(body.prompt) # "string"
          \/ StrLen(Trim(body.prompt.s)) = 0
  THEN [kind |-> "invalid", error |-> ErrPromptRequired]
  ELSE IF StrLen(body.prompt.s) > MaxPromptLength
  THEN [kind |-> "invalid", error |-> ErrPromptTooLong]
  ELSE IF OptionalTrimThrows(body.userId)
  THEN [kind |-> "throw", error |-> ErrNotAFunction]
  ELSE [kind |-> "valid",
        data |-> [prompt |-> Trim(body.prompt.s), duration |-> body.duration,
                  quality |-> body.quality, userId |-> OptionalTrim(body.userId)]]

\* An HTTP response: the status and the envelope.
NoData == [t |-> "undefined"]
Response(status, success, data, error) ==
  [status |-> status, success |-> success, data |-> data, error |-> error]

\* The entry of router.post('/generate'): the validation and what the
\* handler does with its outcome.  "respond" answers at once, "invoke" goes on
\* to veoService.generateVideo with the validated data.
GenerateEntry(body) ==
  LET v == validateGenerationRequest(body) IN
  CASE v.kind = "invalid" ->
         [kind |-> "respond", response |-> Response(400, FALSE, NoData, v.error)]
    [] v.kind = "throw" ->
         [kind |-> "respond", response |-> Response(500, FALSE, NoData, v.error)]
    [] OTHER -> [kind |-> "invoke", data |-> v.data]

(***************************************************************************)
(* The provider (Google GenAI), as the orchestrator sees it.               *)
(***************************************************************************)
\* A URI string: whether new URL() parses it, its host, and the last segment
\* of its path with whether a ':suffix' follows it.
Uri(ok, host, file, suffix) ==
  [t |-> "string", ok |-> ok, host |-> host, file |-> file, suffix |-> suffix]

\* A host is the sequence of the pieces it is written with.
GoogleUri == Uri(TRUE, <<"generativelanguage", ".", "googleapis.com">>, "abc123", TRUE)
UserContentUri == Uri(TRUE, <<"lh3", ".", "googleusercontent.com">>, "abc123", FALSE)
OtherUri == Uri(TRUE, <<"cdn", ".", "example.com">>, "clip", FALSE)
LookalikeUri == Uri(TRUE, <<"googleapis.com", ".", "evil.example">>, "clip", FALSE)
BadUri == Uri(FALSE, <<>>, "", FALSE)
FileName == [t |-> "string", name |-> "files/abc123"]

\* The video reference of a finished operation (generatedVideos[0].video).
VideoRef(uri, downloadUri, fileUrl, name) ==
  [t |-> "object", uri |-> uri, downloadUri |-> downloadUri,
   fileUrl |-> fileUrl, name |-> name]

VideoRefs ==
  { VideoRef(GoogleUri, Undefined, Undefined, Undefined),
    VideoRef(Undefined, OtherUri, Undefined, FileName),
    VideoRef(Undefined, Undefined, Undefined, FileName),
    VideoRef(BadUri, Undefined, Undefined, Undefined),
    VideoRef(UserContentUri, OtherUri, Undefined, FileName),
    VideoRef(Undefined, OtherUri, GoogleUri, Undefined),
    VideoRef(Undefined, Undefined, LookalikeUri, Undefined) }

ProviderMessages == {"quota exceeded", "unsafe prompt"}

\* What generateVideos / getVideosOperation resolve to.
Operation(done, error, video) == [done |-> done, error |-> error, video |-> video]
Operations ==
  { Operation(FALSE, Undefined, Undefined), Operation(TRUE, Undefined, Undefined) }
  \cup { Operation(TRUE, [t |-> "object", message |-> m], Undefined) : m \in ProviderMessages }
  \cup { Operation(TRUE, Undefined, v) : v \in VideoRefs }

(***************************************************************************)
(* State of Spec: two POST /generate requests in flight.                   *)
(***************************************************************************)
Requests == {"r1", "r2"}

MaxPolls == 2
MaxNow == 1

VARIABLES
  proc,     \* per request: where it is suspended and its local variables
  hist,     \* per request: what it has done so far (history, not program state)
  now,      \* Date.now()
  bucket,   \* S3: object key -> the request whose video bytes it holds
  videos,   \* MongoDB collection 'videos', in insertion order
  tempDir,  \* the files under video_temp/
  vBody, vOut,           \* SpecValidate: the body and what the entry made of it
  lQuery, lTtl, lSent,   \* SpecList: the query, the TTL signed with, the response
  lLog,     \* the last two GET /list calls: how their awaits settled, their keys
  closed,   \* the requests whose client has closed the connection
  sKey, sTtl, sUrl,      \* SpecSign: a call of getSignedUrl and what it issued
  lsStore, lsPos, lsResults, lsOut,  \* SpecBucketList: a call of S3Service.listVideos
  isConnected,  \* the module-level flag of the Mongo connection module
  readyState,   \* mongoose.connection.readyState
  caller,       \* per caller of connectMongo / disconnectMongo: where it is
  dbHist        \* what the connection module has done so far (history)

genVars == <<proc, hist, now, bucket, videos, tempDir>>
valVars == <<vBody, vOut>>
listVars == <<lQuery, lTtl, lSent, lLog>>
connVars == <<closed>>
signVars == <<sKey, sTtl, sUrl>>
lsVars == <<lsStore, lsPos, lsResults, lsOut>>
dbVars == <<isConnected, readyState, caller, dbHist>>
vars == <<proc, hist, now, bucket, videos, tempDir, vBody, vOut, lQuery, lTtl, lSent,
          lLog, closed, sKey, sTtl, sUrl, lsStore, lsPos, lsResults, lsOut,
          isConnected, readyState, caller, dbHist>>

None == [t |-> "undefined"]

\* No call of S3Service.listVideos under way.
IdleGateway ==
  lsStore = <<>> /\ lsPos = 1 /\ lsResults = <<>> /\ lsOut = None

Callers == {"c1", "c2"}
\* connectedAt: the readyStates at which connectMongo has called
\* mongoose.connect; returnedAt: the readyStates at which disconnectMongo has
\* returned without throwing; lost: the connection dropped without a close.
InitDbHist == [connectedAt |-> {}, returnedAt |-> {}, lost |-> FALSE]
\* The connection module as loaded: flag false, connection closed.
IdleDb ==
  /\ isConnected = FALSE /\ readyState = 0
  /\ caller = [c \in Callers |-> "idle"]
  /\ dbHist = InitDbHist

InitProc ==
  [pc |-> "idle", body |-> None, request |-> None, videoRef |-> None,
   s3Key |-> None, tempPath |-> None, error |-> <<>>, response |-> None,
   sent |-> <<>>, downloadUri |-> None, headers |-> {}]

\* submits: calls of generateVideos; polls: calls of getVideosOperation (counted
\* up to MaxPolls); sawDone: a call resolved to a done operation; callThrew:
\* one of those calls rejected; jobError: the message of the error a done
\* operation carried; streamTries, diskTries: entries into streamVideoToS3 and
\* diskDownloadAndUpload; streamThrew, diskThrew: each path threw; uploaded:
\* the keys under which an upload of this request completed; uploads: how
\* many uploads of this request completed; failed and cause:
\* generateVideo threw, and the message it started from; createFailed,
\* created: how VideoModel.create settled; unlinked: how the unlink of the
\* temp file settled ("none" while it has not); metadata: "unasked", then
\* "noName" when fetchFileMetadata had no file name to ask for, "rejected" or
\* "resolved" as files.get settled.
InitHist ==
  [submits |-> 0, polls |-> 0, sawDone |-> FALSE, callThrew |-> FALSE,
   jobError |-> "", streamTries |-> 0, diskTries |-> 0, streamThrew |-> FALSE,
   diskThrew |-> FALSE, uploaded |-> {}, uploads |-> 0, failed |-> FALSE, cause |-> <<>>,
   createFailed |-> FALSE, created |-> FALSE, unlinked |-> "none",
   metadata |-> "unasked"]

\* The bodies the two requests are sent with.
Bodies ==
  { Undefined,
    Body(StrV(<<>>), Undefined, Undefined, Undefined),
    Body(StrV(<<Ws(2)>>), Undefined, Undefined, Undefined),
    Body(StrV(<<Ws(1), Ch(3), Ws(1)>>), NumV(8), StrV(<<Ch(4)>>), StrV(<<Ch(4), Ws(1)>>)),
    Body(StrV(<<Ch(3)>>), Undefined, Undefined, NumV(7)) }

(***************************************************************************)
(* Local steps of one request.  Each takes the request's record p and its  *)
(* history h and gives the pair after the synchronous code that follows.   *)
(***************************************************************************)
L(p, h) == [p |-> p, h |-> h]

S3Key(ts) == [t |-> "string", ts |-> ts]
TempPath(ts) == [t |-> "string", ts |-> ts]

\* The catch of generateVideo (veoService.ts:83-86) wraps the message and the
\* catch of the route (video.router.ts:104-110) answers 500 with it.
GenerateVideoCatch(msg) == <<"Failed to generate video">> \o msg

\* The route's catch answering with its fixed text instead of error.message.
RouterCatch_FixedText(p, msg) ==
  [p EXCEPT !.pc = "done",
            !.sent = Append(@, Response(500, FALSE, NoData,
                                        <<"Failed to generate video">>))]

RouterCatch(p, msg) ==
  [p EXCEPT !.pc = "done",
            !.sent = Append(@, Response(500, FALSE, NoData, msg))]

\* A failure inside generateVideo with message msg; cause is the message of
\* the failure it started from.
Throw(p, h, msg, cause) ==
  L(RouterCatch(p, GenerateVideoCatch(msg)),
    [h EXCEPT !.failed = TRUE, !.cause = cause])

\* diskDownloadAndUpload up to its first await, the mkdir.
diskDownloadAndUpload(p, h) ==
  L([p EXCEPT !.pc = "mkdir"], [h EXCEPT !.diskTries = @ + 1])

\* extractDownloadUri overlooking the downloadUri field.
extractDownloadUri_NoDownloadUri(videoRef) ==
  IF Truthy(videoRef.uri) THEN videoRef.uri ELSE videoRef.fileUrl

\* extractDownloadUri: the first truthy of uri, downloadUri, fileUrl.
extractDownloadUri(videoRef) ==
  IF Truthy(videoRef.uri) THEN videoRef.uri
  ELSE IF Truthy(videoRef.downloadUri) THEN videoRef.downloadUri
  ELSE videoRef.fileUrl

\* String.prototype.includes on a host: the text occurs in it.
Includes(host, text) == \E i \in DOMAIN host : host[i] = text

ApiKeyHeader == "x-goog-api-key"

\* buildRequestHeaders (veoService.ts:227-236): the names of the headers of
\* the download request.
buildRequestHeaders(downloadUri) ==
  IF Includes(downloadUri.host, "googleapis.com")
     \/ Includes(downloadUri.host, "googleusercontent.com")
  THEN {ApiKeyHeader} ELSE {}

\* The catch of uploadVideoToS3 throwing the streaming error on instead of
\* falling through to the disk path.
StreamFailed_NoFallback(p, h) ==
  Throw(p, [h EXCEPT !.streamThrew = TRUE], <<"streaming failed">>,
        <<"streaming failed">>)

\* The catch of uploadVideoToS3 (veoService.ts:158-164): whatever the
\* streaming path threw is logged and the disk path runs.
StreamFailed(p, h) == diskDownloadAndUpload(p, [h EXCEPT !.streamThrew = TRUE])

\* uploadVideoToS3 up to its first await: the fetch of streamVideoToS3, or the
\* mkdir of the disk path when there is no URI or new URL() throws on it.
uploadVideoToS3(p, h) ==
  LET downloadUri == extractDownloadUri(p.videoRef) IN
  IF Truthy(downloadUri)
  THEN LET h1 == [h EXCEPT !.streamTries = @ + 1] IN
       IF downloadUri.ok
       THEN L([p EXCEPT !.pc = "fetch", !.downloadUri = downloadUri,
                        !.headers = buildRequestHeaders(downloadUri)], h1)
       ELSE StreamFailed(p, h1)
  ELSE diskDownloadAndUpload(p, h)

\* waitForCompletion giving up after its first poll.
OnOperation_GivesUp(p, h, operation, clock) ==
  IF ~operation.done
  THEN IF h.polls >= 1
       THEN Throw(p, h, <<"Video generation timed out">>,
                  <<"Video generation timed out">>)
       ELSE L([p EXCEPT !.pc = "poll"],
              [h EXCEPT !.polls = IF @ < MaxPolls THEN @ + 1 ELSE @])
  ELSE LET h1 == [h EXCEPT !.sawDone = TRUE] IN
       IF Truthy(operation.error)
       THEN Throw(p, [h1 EXCEPT !.jobError = operation.error.message],
                  <<"Video generation failed", operation.error.message>>,
                  <<operation.error.message>>)
       ELSE IF ~Truthy(operation.video)
       THEN Throw(p, h1, <<"No video generated in the response">>,
                  <<"No video generated in the response">>)
       ELSE uploadVideoToS3([p EXCEPT !.videoRef = operation.video,
                                      !.s3Key = S3Key(clock)], h1)

\* generateVideo generating the key before it extracts the video reference.
OnOperation_KeyFirst(p, h, operation, clock) ==
  IF ~operation.done
  THEN L([p EXCEPT !.pc = "poll"],
         [h EXCEPT !.polls = IF @ < MaxPolls THEN @ + 1 ELSE @])
  ELSE LET h1 == [h EXCEPT !.sawDone = TRUE] IN
       IF Truthy(operation.error)
       THEN Throw(p, [h1 EXCEPT !.jobError = operation.error.message],
                  <<"Video generation failed", operation.error.message>>,
                  <<operation.error.message>>)
       ELSE IF ~Truthy(operation.video)
       THEN Throw([p EXCEPT !.s3Key = S3Key(clock)], h1,
                  <<"No video generated in the response">>,
                  <<"No video generated in the response">>)
       ELSE uploadVideoToS3([p EXCEPT !.videoRef = operation.video,
                                      !.s3Key = S3Key(clock)], h1)

\* waitForCompletion without its test of operation.error.
OnOperation_NoErrorTest(p, h, operation, clock) ==
  IF ~operation.done
  THEN L([p EXCEPT !.pc = "poll"],
         [h EXCEPT !.polls = IF @ < MaxPolls THEN @ + 1 ELSE @])
  ELSE LET h1 == [h EXCEPT !.sawDone = TRUE,
                           !.jobError = IF Truthy(operation.error)
                                        THEN operation.error.message ELSE @] IN
       IF ~Truthy(operation.video)
       THEN Throw(p, h1, <<"No video generated in the response">>,
                  <<"No video generated in the response">>)
       ELSE uploadVideoToS3([p EXCEPT !.videoRef = operation.video,
                                      !.s3Key = S3Key(clock)], h1)

\* waitForCompletion's loop test and what follows it in generateVideo
\* (veoService.ts:116-127, 73-77) for the operation a call resolved to.
OnOperation(p, h, operation, clock) ==
  IF ~operation.done
  THEN L([p EXCEPT !.pc = "poll"],
         [h EXCEPT !.polls = IF @ < MaxPolls THEN @ + 1 ELSE @])
  ELSE LET h1 == [h EXCEPT !.sawDone = TRUE] IN
       IF Truthy(operation.error)
       THEN Throw(p, [h1 EXCEPT !.jobError = operation.error.message],
                  <<"Video generation failed", operation.error.message>>,
                  <<operation.error.message>>)
       ELSE IF ~Truthy(operation.video)
       THEN Throw(p, h1, <<"No video generated in the response">>,
                  <<"No video generated in the response">>)
       ELSE uploadVideoToS3([p EXCEPT !.videoRef = operation.video,
                                      !.s3Key = S3Key(clock)], h1)

\* parseFileNameFromUri: the last path segment with any ':suffix' cut off,
\* undefined for no URI or one new URL() rejects.
parseFileNameFromUri(uri) ==
  IF ~Truthy(uri) THEN Undefined
  ELSE IF ~uri.ok THEN Undefined
  ELSE [t |-> "string", name |-> uri.file]

\* What files.get resolves to: the provider's file metadata.
Metadata(state, name, mimeType, expirationTime, videoDuration) ==
  [t |-> "object", state |-> state, name |-> name, mimeType |-> mimeType,
   expirationTime |-> expirationTime, videoDuration |-> videoDuration]
TimeV(k) == [t |-> "string", time |-> k]
EnumV(x) == [t |-> "string", name |-> x]

Metadatas ==
  { Metadata(EnumV("ACTIVE"), FileName, EnumV("video/mp4"), TimeV(0), EnumV("8s")),
    Metadata(EnumV("PROCESSING"), FileName, Undefined, Undefined, Undefined),
    Metadata(EnumV("STATE_UNSPECIFIED"), Undefined, Undefined, TimeV(3), Undefined),
    Metadata(Undefined, FileName, Undefined, Undefined, Undefined) }

Or(a, b) == IF Truthy(a) THEN a ELSE b
IfTruthy(v) == IF Truthy(v) THEN v ELSE Undefined

\* buildVideoResponse: status, s3Key, publicUrl and prompt always, a metadata
\* field only when the metadata has it.
buildVideoResponse(key, prompt, metadata) ==
  LET has == Truthy(metadata) IN
  [t |-> "object",
   status |-> IF has THEN Or(metadata.state, EnumV("ACTIVE")) ELSE EnumV("ACTIVE"),
   s3Key |-> key,
   publicUrl |-> key,
   prompt |-> StrV(prompt),
   name |-> IF has THEN IfTruthy(metadata.name) ELSE Undefined,
   mimeType |-> IF has THEN IfTruthy(metadata.mimeType) ELSE Undefined,
   format |-> IF has THEN IfTruthy(metadata.mimeType) ELSE Undefined,
   expirationTime |-> IF has THEN IfTruthy(metadata.expirationTime) ELSE Undefined,
   durationSec |-> IF has /\ metadata.videoDuration.t \notin {"undefined", "null"}
                   THEN metadata.videoDuration ELSE Undefined]

\* The route after generateVideo resolved (video.router.ts:72-103): with an
\* s3Key the record is written first, else the answer goes out at once.
Resolved(p, h, response) ==
  IF Truthy(response.s3Key)
  THEN L([p EXCEPT !.pc = "create", !.response = response], h)
  ELSE L([p EXCEPT !.pc = "done", !.response = response,
                   !.sent = Append(@, Response(200, TRUE, response, <<>>))], h)

\* fetchFileMetadata throwing when it has no file name to ask for.
fetchFileMetadata_NoNameFatal(p, h) ==
  LET fileName == Or(p.videoRef.name, parseFileNameFromUri(p.videoRef.uri)) IN
  IF Truthy(fileName) THEN L([p EXCEPT !.pc = "meta"], h)
  ELSE Throw(p, [h EXCEPT !.metadata = "noName"],
             <<"No file name available for metadata fetch">>,
             <<"No file name available for metadata fetch">>)

\* fetchFileMetadata up to its await, and the rest of generateVideo when
\* there is no file name to ask for.
fetchFileMetadata(p, h) ==
  LET fileName == Or(p.videoRef.name, parseFileNameFromUri(p.videoRef.uri)) IN
  IF Truthy(fileName) THEN L([p EXCEPT !.pc = "meta"], h)
  ELSE Resolved(p, [h EXCEPT !.metadata = "noName"],
                buildVideoResponse(p.s3Key, p.request.prompt, Undefined))

(***************************************************************************)
(* The stores.                                                             *)
(***************************************************************************)
\* PutObject: the object under key now holds the bytes request r sent.
Put(b, key, r) == {o \in b : o.key # key} \cup {[key |-> key, by |-> r]}

StatusEnum == {"ACTIVE", "PROCESSING", "FAILED", "EXPIRED"}

\* The hook expiring a document at its expirationTime already.
PreSave_ExpiresEarly(doc, clock) ==
  IF Truthy(doc.expirationTime) /\ doc.status = EnumV("ACTIVE")
     /\ doc.expirationTime.time <= clock
  THEN [doc EXCEPT !.status = EnumV("EXPIRED")]
  ELSE doc

\* The pre('save') hook of VideoSchema: an ACTIVE document whose
\* expirationTime is past is saved EXPIRED.
PreSave(doc, clock) ==
  IF Truthy(doc.expirationTime) /\ doc.status = EnumV("ACTIVE")
     /\ doc.expirationTime.time < clock
  THEN [doc EXCEPT !.status = EnumV("EXPIRED")]
  ELSE doc

\* The document the route hands to VideoModel.create (video.router.ts:77-92).
NewVideo(response, request) ==
  [prompt |-> Or(response.prompt, StrV(request.prompt)),
   s3Key |-> response.s3Key,
   status |-> Or(response.status, EnumV("ACTIVE")),
   format |-> Or(response.format, EnumV("video/mp4")),
   expirationTime |-> response.expirationTime]

\* Schema validation: prompt required and at most 1000 characters once
\* trimmed, s3Key required, status one of the enum.
SchemaValid(doc) ==
  /\ Truthy(doc.prompt) /\ StrLen(Trim(doc.prompt.s)) \in 1..MaxPromptLength
  /\ Truthy(doc.s3Key)
  /\ doc.status.name \in StatusEnum

Set(r, x) ==
  /\ proc' = [proc EXCEPT ![r] = x.p]
  /\ hist' = [hist EXCEPT ![r] = x.h]

(***************************************************************************)
(* Actions of Spec: one per resumption of a request.                       *)
(***************************************************************************)
\* POST /generate arrives: validation, then either the answer or the call of
\* generateVideo, which submits the job (generateVideos) and suspends.
Receive(r, bodies) ==
  /\ proc[r].pc = "idle"
  /\ \E b \in bodies :
       LET e == GenerateEntry(b)
           p == [proc[r] EXCEPT !.body = b]
       IN IF e.kind = "respond"
          THEN Set(r, L([p EXCEPT !.pc = "done", !.sent = Append(@, e.response)],
                        hist[r]))
          ELSE Set(r, L([p EXCEPT !.pc = "submit", !.request = e.data],
                        [hist[r] EXCEPT !.submits = @ + 1]))
  /\ UNCHANGED <<now, bucket, videos, tempDir, valVars, listVars, connVars, signVars, lsVars, dbVars>>

\* generateVideos settles: it rejects, or resolves to an operation.
SubmitReturn(r, operations) ==
  /\ proc[r].pc = "submit"
  /\ \/ \E operation \in operations :
          Set(r, OnOperation(proc[r], hist[r], operation, now))
     \/ Set(r, Throw(proc[r], [hist[r] EXCEPT !.callThrew = TRUE],
                     <<"generateVideos rejected">>, <<"generateVideos rejected">>))
  /\ UNCHANGED <<now, bucket, videos, tempDir, valVars, listVars, connVars, signVars, lsVars, dbVars>>

\* The sleep is over and getVideosOperation settles.
\* The poll loop ending the request, unanswered, once its client is gone.
PollReturn_StopsWhenClosed(r, operations) ==
  /\ proc[r].pc = "poll"
  /\ IF r \in closed
     THEN Set(r, L([proc[r] EXCEPT !.pc = "done"], hist[r]))
     ELSE \/ \E operation \in operations :
               Set(r, OnOperation(proc[r], hist[r], operation, now))
          \/ Set(r, Throw(proc[r], [hist[r] EXCEPT !.callThrew = TRUE],
                          <<"getVideosOperation rejected">>,
                          <<"getVideosOperation rejected">>))
  /\ UNCHANGED <<now, bucket, videos, tempDir, valVars, listVars, connVars, signVars, lsVars, dbVars>>

PollReturn(r, operations) ==
  /\ proc[r].pc = "poll"
  /\ \/ \E operation \in operations :
          Set(r, OnOperation(proc[r], hist[r], operation, now))
     \/ Set(r, Throw(proc[r], [hist[r] EXCEPT !.callThrew = TRUE],
                     <<"getVideosOperation rejected">>,
                     <<"getVideosOperation rejected">>))
  /\ UNCHANGED <<now, bucket, videos, tempDir, valVars, listVars, connVars, signVars, lsVars, dbVars>>

\* streamVideoToS3: the fetch settles.  It rejects, or the response is not
\* ok, or has no body: each throws; otherwise the upload starts.
FetchReturn(r) ==
  /\ proc[r].pc = "fetch"
  /\ \E res \in {"rejected", "not ok", "no body", "ok"} :
       IF res = "ok"
       THEN Set(r, L([proc[r] EXCEPT !.pc = "streamUpload"], hist[r]))
       ELSE Set(r, StreamFailed(proc[r], hist[r]))
  /\ UNCHANGED <<now, bucket, videos, tempDir, valVars, listVars, connVars, signVars, lsVars, dbVars>>

\* uploadMp4Buffer on the streaming path: uploader.done() settles.
StreamUploadDone(r) ==
  /\ proc[r].pc = "streamUpload"
  /\ \/ /\ Set(r, L([proc[r] EXCEPT !.pc = "streamSign"],
                     [hist[r] EXCEPT !.uploaded = @ \cup {proc[r].s3Key},
                                     !.uploads = @ + 1]))
        /\ bucket' = Put(bucket, proc[r].s3Key, r)
     \/ /\ Set(r, StreamFailed(proc[r], hist[r]))
        /\ UNCHANGED bucket
  /\ UNCHANGED <<now, videos, tempDir, valVars, listVars, connVars, signVars, lsVars, dbVars>>

\* buildUploadResult on the streaming path: getSignedUrl settles.
StreamSigned(r) ==
  /\ proc[r].pc = "streamSign"
  /\ \/ Set(r, fetchFileMetadata(proc[r], hist[r]))
     \/ Set(r, StreamFailed(proc[r], hist[r]))
  /\ UNCHANGED <<now, bucket, videos, tempDir, valVars, listVars, connVars, signVars, lsVars, dbVars>>

\* diskDownloadAndUpload: the mkdir settles; the temp path is named after
\* the clock and files.download is called.  A rejected mkdir is outside the
\* try of the function and goes straight to generateVideo's catch.
MkdirReturn(r) ==
  /\ proc[r].pc = "mkdir"
  /\ \/ Set(r, L([proc[r] EXCEPT !.pc = "download", !.tempPath = TempPath(now)],
                 hist[r]))
     \/ Set(r, Throw(proc[r], [hist[r] EXCEPT !.diskThrew = TRUE],
                     <<"mkdir failed">>, <<"mkdir failed">>))
  /\ UNCHANGED <<now, bucket, videos, tempDir, valVars, listVars, connVars, signVars, lsVars, dbVars>>

\* The catch of diskDownloadAndUpload throwing again without the unlink.
DiskFailed_NoCleanup(p, h, msg, cause) ==
  Throw(p, [h EXCEPT !.diskThrew = TRUE], msg, cause)

\* How fs.promises.unlink settled.
Unlinked(h, removed) == [h EXCEPT !.unlinked = IF removed THEN "ok" ELSE "failed"]

\* The catch of diskDownloadAndUpload cleaning up and not throwing again.
DiskFailed_Swallowed(p, h, msg, cause) ==
  L([p EXCEPT !.pc = "unlinkOk"], [h EXCEPT !.diskThrew = TRUE])

\* The catch of diskDownloadAndUpload (veoService.ts:217-221) up to its
\* await: the error is kept and the temp file's unlink is called.
DiskFailed(p, h, msg, cause) ==
  L([p EXCEPT !.pc = "unlinkErr", !.error = msg],
    [h EXCEPT !.diskThrew = TRUE, !.cause = cause])

\* files.download settles: resolved (the file may not be there yet) or
\* rejected.
DownloadReturn(r) ==
  /\ proc[r].pc = "download"
  /\ \/ /\ Set(r, L([proc[r] EXCEPT !.pc = "waitFile"], hist[r]))
        /\ \E written \in BOOLEAN :
             tempDir' = IF written THEN tempDir \cup {proc[r].tempPath} ELSE tempDir
     \/ /\ Set(r, DiskFailed(proc[r], hist[r], <<"download failed">>,
                             <<"download failed">>))
        /\ UNCHANGED tempDir
  /\ UNCHANGED <<now, bucket, videos, valVars, listVars, connVars, signVars, lsVars, dbVars>>

\* waitForFile: the file is there and stat is called, or it is not and the
\* 15 s run out.
WaitFile(r) ==
  /\ proc[r].pc = "waitFile"
  /\ IF proc[r].tempPath \in tempDir
     THEN Set(r, L([proc[r] EXCEPT !.pc = "stat"], hist[r]))
     ELSE Set(r, DiskFailed(proc[r], hist[r], <<"File not found after 15000ms">>,
                            <<"File not found after 15000ms">>))
  /\ UNCHANGED <<now, bucket, videos, tempDir, valVars, listVars, connVars, signVars, lsVars, dbVars>>

\* fs.promises.stat settles; it rejects when the file is gone.
StatReturn(r) ==
  /\ proc[r].pc = "stat"
  /\ IF proc[r].tempPath \in tempDir
     THEN Set(r, L([proc[r] EXCEPT !.pc = "diskUpload"], hist[r]))
     ELSE Set(r, DiskFailed(proc[r], hist[r], <<"ENOENT">>, <<"ENOENT">>))
  /\ UNCHANGED <<now, bucket, videos, tempDir, valVars, listVars, connVars, signVars, lsVars, dbVars>>

\* uploadMp4Buffer on the disk path: uploader.done() settles.
DiskUploadDone(r) ==
  /\ proc[r].pc = "diskUpload"
  /\ \/ /\ Set(r, L([proc[r] EXCEPT !.pc = "diskSign"],
                     [hist[r] EXCEPT !.uploaded = @ \cup {proc[r].s3Key},
                                     !.uploads = @ + 1]))
        /\ bucket' = Put(bucket, proc[r].s3Key, r)
     \/ /\ Set(r, DiskFailed(proc[r], hist[r],
                             <<"Failed to upload to S3", "upload failed">>,
                             <<"upload failed">>))
        /\ UNCHANGED bucket
  /\ UNCHANGED <<now, videos, tempDir, valVars, listVars, connVars, signVars, lsVars, dbVars>>

\* buildUploadResult on the disk path: getSignedUrl settles.  Its promise
\* is returned without an await, so a rejection passes by the catch of
\* uploadMp4Buffer with its own message.
DiskSigned(r) ==
  /\ proc[r].pc = "diskSign"
  /\ \/ Set(r, L([proc[r] EXCEPT !.pc = "unlinkOk"], hist[r]))
     \/ Set(r, DiskFailed(proc[r], hist[r], <<"signing failed">>,
                          <<"signing failed">>))
  /\ UNCHANGED <<now, bucket, videos, tempDir, valVars, listVars, connVars, signVars, lsVars, dbVars>>

\* The unlink after the upload settles; a rejection is only logged.
UnlinkAfterUpload(r) ==
  /\ proc[r].pc = "unlinkOk"
  /\ \E removed \in BOOLEAN :
       /\ tempDir' = IF removed THEN tempDir \ {proc[r].tempPath} ELSE tempDir
       /\ Set(r, fetchFileMetadata(proc[r], Unlinked(hist[r], removed)))
  /\ UNCHANGED <<now, bucket, videos, valVars, listVars, connVars, signVars, lsVars, dbVars>>

\* The unlink in the catch settles; a rejection is dropped and the kept
\* error is thrown again.
UnlinkAfterError(r) ==
  /\ proc[r].pc = "unlinkErr"
  /\ \E removed \in BOOLEAN :
       /\ tempDir' = IF removed THEN tempDir \ {proc[r].tempPath} ELSE tempDir
       /\ Set(r, Throw(proc[r], Unlinked(hist[r], removed), proc[r].error,
                       hist[r].cause))
  /\ UNCHANGED <<now, bucket, videos, valVars, listVars, connVars, signVars, lsVars, dbVars>>

\* files.get settles; a rejection gives undefined metadata.
MetaReturn(r, metadatas) ==
  /\ proc[r].pc = "meta"
  /\ \E metadata \in metadatas \cup {Undefined} :
       Set(r, Resolved(proc[r],
                       [hist[r] EXCEPT !.metadata = IF metadata = Undefined
                                                    THEN "rejected" ELSE "resolved"],
                       buildVideoResponse(proc[r].s3Key, proc[r].request.prompt,
                                          metadata)))
  /\ UNCHANGED <<now, bucket, videos, tempDir, valVars, listVars, connVars, signVars, lsVars, dbVars>>

\* The 200 of the route (video.router.ts:99-103).
Respond200(p) ==
  [p EXCEPT !.pc = "done",
            !.sent = Append(@, Response(200, TRUE, p.response, <<>>))]

\* The create outside any try of its own: its rejection reaches the route's
\* catch.
CreateRejected_Propagates(p, h) ==
  L(RouterCatch(p, <<"E11000 duplicate key error">>),
    [h EXCEPT !.createFailed = TRUE])

\* The inner catch of the route (video.router.ts:94-96): a rejected create
\* is logged and the 200 goes out.
CreateRejected(p, h) == L(Respond200(p), [h EXCEPT !.createFailed = TRUE])

\* VideoModel.create settles: validation, the pre('save') hook, the insert
\* under the unique index on s3Key; or the connection fails.
CreateReturn(r) ==
  /\ proc[r].pc = "create"
  /\ LET doc == NewVideo(proc[r].response, proc[r].request)
         stored == [PreSave(doc, now) EXCEPT !.prompt = StrV(Trim(@.s))]
     IN \/ /\ SchemaValid(doc)
           /\ \A i \in DOMAIN videos : videos[i].s3Key # doc.s3Key
           /\ videos' = Append(videos,
                [s3Key |-> stored.s3Key, prompt |-> stored.prompt,
                 status |-> stored.status, format |-> stored.format,
                 expirationTime |-> stored.expirationTime,
                 updatedAt |-> now, by |-> r])
           /\ Set(r, L(Respond200(proc[r]), [hist[r] EXCEPT !.created = TRUE]))
        \/ /\ Set(r, CreateRejected(proc[r], hist[r]))
           /\ UNCHANGED videos
  /\ UNCHANGED <<now, bucket, tempDir, valVars, listVars, connVars, signVars, lsVars, dbVars>>

\* Time passes.
Tick ==
  /\ now < MaxNow
  /\ now' = now + 1
  /\ UNCHANGED <<proc, hist, bucket, videos, tempDir, valVars, listVars, connVars, signVars, lsVars, dbVars>>

InitStores ==
  /\ now = 0
  /\ bucket = {}
  /\ videos = <<>>
  /\ tempDir = {}
  /\ vBody = Undefined /\ vOut = None
  /\ lQuery = Undefined /\ lTtl = {} /\ lSent = <<>> /\ lLog = <<>>
  /\ closed = {}
  /\ IdleGateway /\ IdleDb
  /\ sKey = Undefined /\ sTtl = Undefined /\ sUrl = Undefined

\* Spec: one request, every body and every answer of the collaborators.
Single == {"r1"}

Init ==
  /\ proc = [r \in Single |-> InitProc]
  /\ hist = [r \in Single |-> InitHist]
  /\ InitStores

Next ==
  \/ Tick
  \/ \E r \in Single :
       \/ Receive(r, Bodies)
       \/ SubmitReturn(r, Operations)
       \/ PollReturn(r, Operations)
       \/ FetchReturn(r) \/ StreamUploadDone(r) \/ StreamSigned(r)
       \/ MkdirReturn(r) \/ DownloadReturn(r) \/ WaitFile(r) \/ StatReturn(r)
       \/ DiskUploadDone(r) \/ DiskSigned(r)
       \/ UnlinkAfterUpload(r) \/ UnlinkAfterError(r)
       \/ MetaReturn(r, Metadatas)
       \/ CreateReturn(r)

Spec == Init /\ [][Next]_vars

\* SpecTwo: two requests in flight at once, over fewer answers.
TwoBodies ==
  { Body(StrV(<<Ws(2)>>), Undefined, Undefined, Undefined),
    Body(StrV(<<Ch(3)>>), Undefined, Undefined, Undefined) }
TwoOperations ==
  { Operation(FALSE, Undefined, Undefined),
    Operation(TRUE, Undefined, VideoRef(GoogleUri, Undefined, Undefined, Undefined)) }
TwoMetadatas ==
  { Metadata(EnumV("ACTIVE"), FileName, EnumV("video/mp4"), TimeV(0), EnumV("8s")) }

InitTwo ==
  /\ proc = [r \in Requests |-> InitProc]
  /\ hist = [r \in Requests |-> InitHist]
  /\ InitStores

NextTwo ==
  \/ Tick
  \/ \E r \in Requests :
       \/ Receive(r, TwoBodies)
       \/ SubmitReturn(r, TwoOperations)
       \/ PollReturn(r, TwoOperations)
       \/ FetchReturn(r) \/ StreamUploadDone(r) \/ StreamSigned(r)
       \/ MkdirReturn(r) \/ DownloadReturn(r) \/ WaitFile(r) \/ StatReturn(r)
       \/ DiskUploadDone(r) \/ DiskSigned(r)
       \/ UnlinkAfterUpload(r) \/ UnlinkAfterError(r)
       \/ MetaReturn(r, TwoMetadatas)
       \/ CreateReturn(r)

SpecTwo == InitTwo /\ [][NextTwo]_vars

(***************************************************************************)
(* SpecValidate: the entry of POST /generate applied to one body.          *)
(***************************************************************************)
MaxRuns == 3

RunLengths == {1, 2, MaxPromptLength - 1, MaxPromptLength, MaxPromptLength + 1}
Runs == {Ws(n) : n \in RunLengths} \cup {Ch(n) : n \in RunLengths}

RECURSIVE StringsUpTo(_)
StringsUpTo(k) ==
  IF k = 0 THEN {<<>>}
  ELSE LET shorter == StringsUpTo(k - 1) IN
       shorter \cup {Append(s, run) : s \in shorter, run \in Runs}

ValPrompts ==
  {Undefined, Null, NumV(0), NumV(5)} \cup {StrV(s) : s \in StringsUpTo(MaxRuns)}
ValUserIds == {Undefined, Null, StrV(<<Ws(1), Ch(2)>>), NumV(7)}
ValBodies ==
  {Undefined, NumV(3)}
  \cup {Body(prompt, NumV(8), Undefined, userId) :
          prompt \in ValPrompts, userId \in ValUserIds}

InitValidate ==
  /\ vBody \in ValBodies
  /\ vOut = None
  /\ proc = [r \in Single |-> InitProc]
  /\ hist = [r \in Single |-> InitHist]
  /\ now = 0 /\ bucket = {} /\ videos = <<>> /\ tempDir = {}
  /\ lQuery = Undefined /\ lTtl = {} /\ lSent = <<>> /\ lLog = <<>>
  /\ closed = {}
  /\ IdleGateway /\ IdleDb
  /\ sKey = Undefined /\ sTtl = Undefined /\ sUrl = Undefined

\* The request with body vBody reaches the handler.
Validate ==
  /\ vOut = None
  /\ vOut' = GenerateEntry(vBody)
  /\ UNCHANGED <<vBody, genVars, listVars, connVars, signVars, lsVars, dbVars>>

NextValidate == Validate

SpecValidate == InitValidate /\ [][NextValidate]_vars

\* The prompt of a body as the claims read it: a string whose trimmed length
\* is within 1..1000.
IsObjectBody(b) == b.t = "object"
ClaimPromptValid(b) ==
  /\ IsObjectBody(b)
  /\ b.prompt.t = "string"
  /\ StrLen(Trim(b.prompt.s)) \in 1..MaxPromptLength
ClaimPromptInvalid(b) ==
  \/ ~IsObjectBody(b)
  \/ b.prompt.t # "string"
  \/ StrLen(Trim(b.prompt.s)) = 0
  \/ StrLen(Trim(b.prompt.s)) > MaxPromptLength

\* C1: a body whose prompt is a string of 1..1000 characters once trimmed is
\* accepted (here for the bodies whose userId is absent or a string, where
\* nothing but the prompt decides), and a body whose prompt is missing, not a
\* string, empty, whitespace-only or longer than 1000 characters is answered
\* 400 with success false.
C1_Validation ==
  vOut # None =>
    /\ (ClaimPromptValid(vBody) /\ vBody.userId.t \in {"undefined", "null", "string"})
         => vOut.kind = "invoke"
    /\ ClaimPromptInvalid(vBody)
         => /\ vOut.kind = "respond"
            /\ vOut.response.status = 400
            /\ vOut.response.success = FALSE

(***************************************************************************)
(* Claims about POST /generate, under Spec unless said otherwise.          *)
(***************************************************************************)
Started(r) == proc[r].pc # "idle"
Answered(r) == proc[r].sent # <<>>
BlobsOf(r) == {o \in bucket : o.by = r}
VideosOf(r) == {i \in DOMAIN videos : videos[i].by = r}

\* C2: a request whose prompt is valid has had generateVideo invoked, and so
\* a job submitted, exactly once, whatever its duration, quality and userId:
\* it is never answered 400 or 500 with no job submitted.
C2_ValidPromptInvokes ==
  \A r \in DOMAIN proc :
    (Started(r) /\ ClaimPromptValid(proc[r].body)) => hist[r].submits = 1

\* C3: a request whose prompt is invalid is answered 400 at once and has
\* submitted no job, attempted no upload, stored no blob, left no temp file
\* and created no record.
C3_InvalidRejectedAtBoundary ==
  \A r \in DOMAIN proc :
    (Started(r) /\ ClaimPromptInvalid(proc[r].body)) =>
      /\ proc[r].pc = "done"
      /\ Len(proc[r].sent) = 1
      /\ proc[r].sent[1].status = 400
      /\ proc[r].sent[1].success = FALSE
      /\ hist[r].submits = 0
      /\ hist[r].streamTries = 0 /\ hist[r].diskTries = 0
      /\ hist[r].uploaded = {} /\ BlobsOf(r) = {}
      /\ ~hist[r].created /\ VideosOf(r) = {}
      /\ bucket = {} /\ videos = <<>> /\ tempDir = {}

\* C5: a request whose streaming path threw has entered the disk-staging
\* path exactly once, and no path is entered twice; when both paths threw and
\* the request is over, the client has exactly one response, a 500 with a
\* non-empty error.
C5_UploadFallback ==
  \A r \in DOMAIN proc :
    /\ hist[r].streamTries <= 1 /\ hist[r].diskTries <= 1
    /\ hist[r].streamThrew => (hist[r].streamTries = 1 /\ hist[r].diskTries = 1)
    /\ (Answered(r) /\ hist[r].streamThrew /\ proc[r].sent[1].status = 500)
         => hist[r].diskThrew
    /\ (hist[r].streamThrew /\ hist[r].diskThrew)
         => /\ proc[r].pc \in {"unlinkErr", "done"}
            /\ Len(proc[r].sent) = (IF proc[r].pc = "done" THEN 1 ELSE 0)
            /\ proc[r].pc = "done" =>
                 /\ proc[r].sent[1].status = 500
                 /\ proc[r].sent[1].success = FALSE
                 /\ proc[r].sent[1].error # <<>>

C5_Witness ==
  \E r \in DOMAIN proc :
    /\ hist[r].streamThrew /\ hist[r].diskThrew /\ hist[r].uploaded = {}
    /\ proc[r].pc = "done" /\ proc[r].sent[1].status = 500

\* For a string-sequence message: whether the error text ends with it.
EndsWith(error, msg) ==
  /\ Len(msg) <= Len(error)
  /\ SubSeq(error, Len(error) - Len(msg) + 1, Len(error)) = msg

\* C6, as stated: a request that has polled is answered only after a call
\* resolved to a done operation.
C6_AnsweredOnlyAfterDone ==
  \A r \in DOMAIN proc :
    (Answered(r) /\ hist[r].polls >= 1) => hist[r].sawDone

\* C6, amended: while the job reports not-done the request stays in the poll
\* loop with no response, however many polls it made (the count is not looked
\* at); a request that passed validation is answered only after a call
\* resolved to a done operation or a submit or poll call itself rejected.
C6_UnboundedPoll ==
  \A r \in DOMAIN proc :
    /\ proc[r].pc = "poll" => (~Answered(r) /\ ~hist[r].sawDone /\ hist[r].polls >= 1)
    /\ (Answered(r) /\ hist[r].submits = 1)
         => (hist[r].sawDone \/ hist[r].callThrew)
    /\ (Answered(r) /\ hist[r].callThrew /\ ~hist[r].sawDone)
         => proc[r].sent[1].status = 500

C6_Witness ==
  \E r \in DOMAIN proc :
    proc[r].pc = "poll" /\ hist[r].polls = MaxPolls /\ ~Answered(r)

\* C7: a request whose done job carried an error is over with one response,
\* a 500 whose error ends with the provider's message, and has attempted no
\* upload and created no record.
C7_JobErrorFails ==
  \A r \in DOMAIN proc :
    hist[r].jobError # "" =>
      /\ proc[r].pc = "done"
      /\ Len(proc[r].sent) = 1
      /\ proc[r].sent[1].status = 500
      /\ proc[r].sent[1].success = FALSE
      /\ EndsWith(proc[r].sent[1].error, <<hist[r].jobError>>)
      /\ hist[r].streamTries = 0 /\ hist[r].diskTries = 0
      /\ hist[r].uploaded = {} /\ BlobsOf(r) = {}
      /\ ~hist[r].created /\ VideosOf(r) = {}

C7_Witness ==
  \E r \in DOMAIN proc :
    /\ hist[r].jobError = "quota exceeded"
    /\ hist[r].polls >= 1
    /\ Answered(r)

\* C8 (under SpecTwo): every record in the collection has the key of an
\* upload that the request which wrote the record had completed.
C8_RecordAfterUpload ==
  \A i \in DOMAIN videos :
    /\ videos[i].s3Key \in hist[videos[i].by].uploaded
    /\ hist[videos[i].by].created

C8_Witness ==
  /\ Len(videos) = 2
  /\ videos[1].by # videos[2].by

\* C9: a request whose generateVideo resolved and whose create was rejected
\* is answered once, 200 with success true and the result of generateVideo as
\* data, and no record of it exists.
C9_CreateFailureSwallowed ==
  \A r \in DOMAIN proc :
    hist[r].createFailed =>
      /\ proc[r].pc = "done"
      /\ ~hist[r].failed
      /\ Len(proc[r].sent) = 1
      /\ proc[r].sent[1].status = 200
      /\ proc[r].sent[1].success = TRUE
      /\ proc[r].sent[1].data = proc[r].response
      /\ proc[r].sent[1].data.s3Key = proc[r].s3Key
      /\ proc[r].sent[1].data.s3Key \in hist[r].uploaded
      /\ proc[r].sent[1].data.prompt = StrV(proc[r].request.prompt)
      /\ VideosOf(r) = {}

C9_Witness ==
  \E r \in DOMAIN proc :
    /\ hist[r].createFailed
    /\ proc[r].response.status = EnumV("STATE_UNSPECIFIED")
    /\ Answered(r)

\* C10: a request whose generateVideo threw is over with exactly one
\* response, a 500 with success false whose error is non-empty and ends with
\* the message of the failure it started from, and no record of it exists;
\* a request answered 500 after validation is one whose generateVideo threw.
C10_FailureIs500 ==
  \A r \in DOMAIN proc :
    /\ hist[r].failed =>
         /\ proc[r].pc = "done"
         /\ Len(proc[r].sent) = 1
         /\ proc[r].sent[1].status = 500
         /\ proc[r].sent[1].success = FALSE
         /\ hist[r].cause # <<>>
         /\ proc[r].sent[1].error # <<>>
         /\ EndsWith(proc[r].sent[1].error, hist[r].cause)
         /\ ~hist[r].created /\ ~hist[r].createFailed /\ VideosOf(r) = {}
    /\ (proc[r].pc = "done" /\ hist[r].submits = 1 /\ ~hist[r].failed)
         => proc[r].sent[1].status = 200

C10_Witness ==
  \E r \in DOMAIN proc :
    /\ hist[r].failed /\ hist[r].streamThrew /\ hist[r].diskThrew
    /\ hist[r].cause = <<"upload failed">>
    /\ Answered(r)

C3_Witness ==
  \E r \in DOMAIN proc :
    /\ ClaimPromptInvalid(proc[r].body)
    /\ proc[r].body.t = "object"
    /\ proc[r].body.prompt.t = "string"
    /\ StrLen(proc[r].body.prompt.s) > 0
    /\ Answered(r)

(***************************************************************************)
(* SpecList: GET /list over a metadata store.                              *)
(***************************************************************************)
MaxVideos == 2

RECURSIVE Digits(_)
Digits(n) ==
  IF n < 10 THEN <<DigitChars[n + 1]>>
  ELSE Append(Digits(n \div 10), DigitChars[(n % 10) + 1])
\* The decimal text of an integer, as a client writes it into the query.
Decimal(n) == IF n < 0 THEN <<"-">> \o Digits(0 - n) ELSE Digits(n)

QueryNumbers ==
  {0 - 1, 0, 1, MinExpiresIn - 1, MinExpiresIn, MinExpiresIn + 1, DefaultExpiresIn,
   MaxExpiresIn - 1, MaxExpiresIn, MaxExpiresIn + 1, 999999}
\* req.query.expiresIn: absent, a string, or an array when given twice.
Queries ==
  {Undefined, [t |-> "object"]}
  \cup {CharsV(Decimal(n)) : n \in QueryNumbers}
  \cup {CharsV(<<>>), CharsV(<<" ">>), CharsV(<<"a", "b", "c">>),
        CharsV(<<"6", "0", "s">>), CharsV(<<" ", "7", "5", " ">>)}

\* A signed URL: the key it reads and the TTL it was issued with.
SignedUrl(key, expiresIn) == [key |-> key, expiresIn |-> expiresIn]

\* S3Service.getSignedUrl (s3service.ts:126-133): the default parameter
\* stands in for undefined only; any other value goes to the presigner as
\* it is.
getSignedUrl(key, expiresIn) ==
  SignedUrl(key, IF expiresIn = Undefined THEN NumV(DefaultExpiresIn) ELSE expiresIn)

\* VideoModel.find() (video.router.ts:31): the documents as they are stored;
\* the schema has no hook on find or init, so nothing is recomputed.
Find == videos

\* The keys of a list response.
KeysOf(data) == {data[i].key : i \in DOMAIN data}
\* The generate requests that are over.
Finished == {r \in DOMAIN proc : proc[r].pc = "done"}
\* lLog keeps the last two calls.
Logged(log, entry) == IF log = <<>> THEN <<entry>> ELSE <<log[Len(log)], entry>>

\* GET /list dropping from the store the records it has listed.
ListVideos_Purging(queries) ==
  /\ \E q \in queries, findOk \in BOOLEAN :
       LET expiresIn == ExpiresIn(q)
           formattedVideos ==
             [i \in DOMAIN videos |->
                [key |-> videos[i].s3Key,
                 url |-> getSignedUrl(videos[i].s3Key, expiresIn),
                 lastModified |-> videos[i].updatedAt]]
       IN /\ lQuery' = q
          /\ lTtl' = IF findOk /\ videos # <<>> THEN {expiresIn} ELSE {}
          /\ lSent' =
               IF findOk
               THEN <<[status |-> 200, success |-> TRUE, data |-> formattedVideos,
                       count |-> Len(videos), error |-> <<>>]>>
               ELSE <<[status |-> 500, success |-> FALSE, data |-> <<>>,
                       count |-> 0, error |-> <<"Failed to list videos">>]>>
          /\ lLog' = Logged(lLog,
               [findOk |-> findOk, failing |-> {}, records |-> Len(videos),
                finished |-> Finished,
                loaded |-> IF findOk THEN Find ELSE <<>>, at |-> now,
                keys |-> IF findOk THEN KeysOf(formattedVideos) ELSE {}])
          /\ videos' = IF findOk THEN <<>> ELSE videos
  /\ UNCHANGED <<proc, hist, now, bucket, tempDir, valVars, connVars, signVars, lsVars, dbVars>>

\* GET /list answering with the entries whose signing worked.
ListVideos_Partial(queries) ==
  /\ \E q \in queries, findOk \in BOOLEAN, failing \in SUBSET DOMAIN videos :
       LET expiresIn == ExpiresIn(q)
           signed == SelectSeq([i \in DOMAIN videos |-> i], LAMBDA i : i \notin failing)
           formattedVideos ==
             [k \in DOMAIN signed |->
                [key |-> videos[signed[k]].s3Key,
                 url |-> getSignedUrl(videos[signed[k]].s3Key, expiresIn),
                 lastModified |-> videos[signed[k]].updatedAt]]
       IN /\ lQuery' = q
          /\ lTtl' = IF findOk /\ videos # <<>> THEN {expiresIn} ELSE {}
          /\ lSent' =
               IF findOk
               THEN <<[status |-> 200, success |-> TRUE, data |-> formattedVideos,
                       count |-> Len(videos), error |-> <<>>]>>
               ELSE <<[status |-> 500, success |-> FALSE, data |-> <<>>,
                       count |-> 0, error |-> <<"Failed to list videos">>]>>
          /\ lLog' = Logged(lLog,
               [findOk |-> findOk,
                failing |-> IF findOk THEN failing ELSE {},
                records |-> Len(videos),
                finished |-> Finished,
                loaded |-> IF findOk THEN Find ELSE <<>>, at |-> now,
                keys |-> IF findOk THEN KeysOf(formattedVideos) ELSE {}])
  /\ UNCHANGED <<genVars, valVars, connVars, signVars, lsVars, dbVars>>

\* GET /list: find() all records, sign each key, answer the list; a
\* rejection of find or of any getSignedUrl answers 500.
ListVideos(queries) ==
  /\ \E q \in queries, findOk \in BOOLEAN, failing \in SUBSET DOMAIN videos :
       LET expiresIn == ExpiresIn(q)
           formattedVideos ==
             [i \in DOMAIN videos |->
                [key |-> videos[i].s3Key,
                 url |-> getSignedUrl(videos[i].s3Key, expiresIn),
                 lastModified |-> videos[i].updatedAt]]
       IN /\ lQuery' = q
          /\ lTtl' = IF findOk /\ videos # <<>> THEN {expiresIn} ELSE {}
          /\ lSent' =
               IF findOk /\ failing = {}
               THEN <<[status |-> 200, success |-> TRUE, data |-> formattedVideos,
                       count |-> Len(videos), error |-> <<>>]>>
               ELSE <<[status |-> 500, success |-> FALSE, data |-> <<>>,
                       count |-> 0, error |-> <<"Failed to list videos">>]>>
          /\ lLog' = Logged(lLog,
               [findOk |-> findOk,
                failing |-> IF findOk THEN failing ELSE {},
                records |-> Len(videos),
                finished |-> Finished,
                loaded |-> IF findOk THEN Find ELSE <<>>, at |-> now,
                keys |-> IF findOk /\ failing = {}
                         THEN KeysOf(formattedVideos) ELSE {}])
  /\ UNCHANGED <<genVars, valVars, connVars, signVars, lsVars, dbVars>>

\* The stores GET /list may find: records in insertion order, each written
\* no earlier than its key was generated and no earlier than the one before
\* it, under the unique index on s3Key.
StoredVideo(ts, at, r) ==
  [s3Key |-> S3Key(ts), prompt |-> StrV(<<Ch(3)>>), status |-> EnumV("ACTIVE"),
   format |-> EnumV("video/mp4"), expirationTime |-> Undefined,
   updatedAt |-> at, by |-> r]
StoredVideos ==
  {StoredVideo(ts, at, r) : ts \in 0..MaxNow, at \in 0..MaxNow, r \in Requests}

RECURSIVE StoresUpTo(_)
StoresUpTo(k) ==
  IF k = 0 THEN {<<>>}
  ELSE LET shorter == StoresUpTo(k - 1) IN
       shorter \cup
       {Append(st, v) : st \in {x \in shorter : Len(x) = k - 1}, v \in StoredVideos}
ListStores ==
  {st \in StoresUpTo(MaxVideos) :
     /\ \A i \in DOMAIN st : st[i].s3Key.ts <= st[i].updatedAt
     /\ \A i, j \in DOMAIN st : i < j => /\ st[i].s3Key # st[j].s3Key
                                          /\ st[i].updatedAt <= st[j].updatedAt
                                          /\ st[i].by # st[j].by}

InitList ==
  /\ videos \in ListStores
  /\ now = MaxNow
  /\ bucket = {[key |-> videos[i].s3Key, by |-> videos[i].by] : i \in DOMAIN videos}
  /\ tempDir = {}
  /\ proc = [r \in Requests |-> InitProc]
  /\ hist = [r \in Requests |-> InitHist]
  /\ vBody = Undefined /\ vOut = None
  /\ lQuery = Undefined /\ lTtl = {} /\ lSent = <<>> /\ lLog = <<>>
  /\ closed = {}
  /\ IdleGateway /\ IdleDb
  /\ sKey = Undefined /\ sTtl = Undefined /\ sUrl = Undefined

NextList == ListVideos(Queries)

SpecList == InitList /\ [][NextList]_vars

\* What the claims call a numeric query value: a string of an optionally
\* signed decimal integer.
ClaimNumeric(q) == q.t = "string" /\ ~IsNaN(ToNumber(q)) /\ StripStart(q.chars) # <<>>
ClaimAbsent(q) == q.t = "undefined"

\* C4: for a numeric or absent expiresIn, every TTL that GET /list signs
\* with lies within [60, 86400]: 3600 when the parameter is absent, 60 for a
\* value below 60, 86400 for a value above 86400 and the value itself in
\* between.
C4_ExpiresInClamped ==
  (lSent # <<>> /\ (ClaimNumeric(lQuery) \/ ClaimAbsent(lQuery))) =>
    \A ttl \in lTtl :
      /\ ~IsNaN(ttl)
      /\ ttl.v >= MinExpiresIn /\ ttl.v <= MaxExpiresIn
      /\ ClaimAbsent(lQuery) => ttl.v = DefaultExpiresIn
      /\ ClaimNumeric(lQuery) =>
           LET n == ToNumber(lQuery).v IN
           /\ n < MinExpiresIn => ttl.v = MinExpiresIn
           /\ n > MaxExpiresIn => ttl.v = MaxExpiresIn
           /\ (n >= MinExpiresIn /\ n <= MaxExpiresIn) => ttl.v = n

\* The call GET /list answered last.
LastList == lLog[Len(lLog)]

\* C11, as stated: a call in which a signing failed is answered 500 with
\* success false and no data, and every other call is answered 200 with one
\* entry per record and their count.
C11_SigningFailsElse200 ==
  lSent # <<>> =>
    IF LastList.failing # {}
    THEN lSent[1].status = 500 /\ ~lSent[1].success /\ lSent[1].data = <<>>
    ELSE /\ lSent[1].status = 200 /\ lSent[1].success
         /\ Len(lSent[1].data) = Len(videos)
         /\ lSent[1].count = Len(videos)

\* C11, amended: a call whose load of the records failed, or in which the
\* signing of any one record failed, is answered 500 with success false and
\* no data; every other call is answered 200 with, for each record in turn,
\* one entry of its key, a URL signed for that key and its updatedAt, and
\* with the count of the records.
C11_NoPartialList ==
  lSent # <<>> =>
    /\ Len(lSent) = 1
    /\ IF ~LastList.findOk \/ LastList.failing # {}
       THEN /\ lSent[1].status = 500 /\ ~lSent[1].success
            /\ lSent[1].data = <<>>
            /\ lSent[1].error # <<>>
       ELSE /\ lSent[1].status = 200 /\ lSent[1].success
            /\ DOMAIN lSent[1].data = DOMAIN videos
            /\ lSent[1].count = Len(videos)
            /\ \A i \in DOMAIN videos :
                 /\ lSent[1].data[i].key = videos[i].s3Key
                 /\ lSent[1].data[i].url.key = videos[i].s3Key
                 /\ lSent[1].data[i].lastModified = videos[i].updatedAt

C11_Witness ==
  /\ lSent # <<>>
  /\ Len(videos) = 2
  /\ LastList.findOk /\ LastList.failing = {2}
  /\ lSent[1].status = 500

(***************************************************************************)
(* SpecMixed: one POST /generate in flight while GET /list is called.      *)
(***************************************************************************)
MixedQueries == {Undefined, CharsV(<<"9", "0">>)}

NextMixed ==
  \/ Tick
  \/ ListVideos(MixedQueries)
  \/ \E r \in Single :
       \/ Receive(r, TwoBodies)
       \/ SubmitReturn(r, TwoOperations)
       \/ PollReturn(r, TwoOperations)
       \/ FetchReturn(r) \/ StreamUploadDone(r) \/ StreamSigned(r)
       \/ MkdirReturn(r) \/ DownloadReturn(r) \/ WaitFile(r) \/ StatReturn(r)
       \/ DiskUploadDone(r) \/ DiskSigned(r)
       \/ UnlinkAfterUpload(r) \/ UnlinkAfterError(r)
       \/ MetaReturn(r, TwoMetadatas)
       \/ CreateReturn(r)

SpecMixed == Init /\ [][NextMixed]_vars

\* Whether a logged call was answered 200.
Listed(e) == e.findOk /\ e.failing = {}

\* C12 (under SpecMixed): a step in which GET /list is answered changes
\* neither the collection nor the bucket nor the temp files, and when the
\* call before it was answered 200 too and no generate request finished in
\* between, both calls returned the same set of keys.
C12_ListIdempotent ==
  [][lLog' # lLog =>
       /\ videos' = videos /\ bucket' = bucket /\ tempDir' = tempDir
       /\ (/\ Len(lLog') = 2
           /\ Listed(lLog'[1]) /\ Listed(lLog'[2])
           /\ lLog'[1].finished = lLog'[2].finished)
          => lLog'[1].keys = lLog'[2].keys]_vars

C12_Witness ==
  /\ Len(lLog) = 2
  /\ Listed(lLog[1]) /\ Listed(lLog[2])
  /\ lLog[1].finished = lLog[2].finished
  /\ lLog[1].keys # {} /\ lLog[1].keys = lLog[2].keys
  /\ videos # <<>>

\* C13: the entries of a 200 list response are in descending order of
\* lastModified.
C13_ListSortedDescending ==
  (lSent # <<>> /\ lSent[1].status = 200) =>
    \A i, j \in DOMAIN lSent[1].data :
      i < j => lSent[1].data[i].lastModified >= lSent[1].data[j].lastModified

\* C14 (under SpecTwo): no two records have the same s3Key, and the object
\* under each record's key holds the bytes uploaded by the request that
\* wrote the record.
C14_KeyUniqueOneBlob ==
  /\ \A i, j \in DOMAIN videos : i # j => videos[i].s3Key # videos[j].s3Key
  /\ \A i \in DOMAIN videos :
       [key |-> videos[i].s3Key, by |-> videos[i].by] \in bucket

\* C15 (under SpecTwo): what a request answered 200 leaves behind is what it
\* leaves when it runs alone: the object under the key of its response holds
\* the bytes it uploaded, and the record it wrote, if it wrote one, is in
\* the collection under that key.
C15_RequestsIndependent ==
  \A r \in DOMAIN proc :
    (Answered(r) /\ proc[r].sent[1].status = 200) =>
      /\ [key |-> proc[r].sent[1].data.s3Key, by |-> r] \in bucket
      /\ hist[r].created =>
           \E i \in DOMAIN videos :
             videos[i].by = r /\ videos[i].s3Key = proc[r].sent[1].data.s3Key

\* Whether a document's expirationTime lies before the clock value.
Expired(doc, clock) == Truthy(doc.expirationTime) /\ doc.expirationTime.time < clock

\* C16 (under SpecMixed): no document that find() hands to GET /list is
\* ACTIVE with its expirationTime before the time of the load, and no record
\* is stored ACTIVE with its expirationTime before the time it was saved.
C16_LazyExpiry ==
  /\ \A k \in DOMAIN lLog : \A i \in DOMAIN lLog[k].loaded :
       Expired(lLog[k].loaded[i], lLog[k].at)
         => lLog[k].loaded[i].status # EnumV("ACTIVE")
  /\ \A i \in DOMAIN videos :
       Expired(videos[i], videos[i].updatedAt)
         => videos[i].status # EnumV("ACTIVE")

\* C17: no record in the collection has status PROCESSING or FAILED.
C17_NeverProcessingOrFailed ==
  \A i \in DOMAIN videos :
    videos[i].status \notin {EnumV("PROCESSING"), EnumV("FAILED")}

(***************************************************************************)
(* SpecSign: S3Service.getSignedUrl applied to one key and one TTL.        *)
(***************************************************************************)
SignNumbers == QueryNumbers \cup {n * 1800 : n \in 1..24}
\* The expiresIn argument: left out, a number, or NaN.
SignTtls == {Undefined, NaN} \cup {NumV(n) : n \in SignNumbers}
SignKeys == {S3Key(ts) : ts \in 0..MaxNow}

InitSign ==
  /\ sKey \in SignKeys /\ sTtl \in SignTtls /\ sUrl = Undefined
  /\ proc = [r \in Single |-> InitProc]
  /\ hist = [r \in Single |-> InitHist]
  /\ now = 0 /\ bucket = {} /\ videos = <<>> /\ tempDir = {}
  /\ vBody = Undefined /\ vOut = None
  /\ lQuery = Undefined /\ lTtl = {} /\ lSent = <<>> /\ lLog = <<>>
  /\ closed = {}
  /\ IdleGateway /\ IdleDb

Sign ==
  /\ sUrl = Undefined
  /\ sUrl' = getSignedUrl(sKey, sTtl)
  /\ UNCHANGED <<sKey, sTtl, genVars, valVars, listVars, connVars, lsVars, dbVars>>

NextSign == Sign

SpecSign == InitSign /\ [][NextSign]_vars

\* C18 (under SpecSign): a URL that getSignedUrl issued has a TTL within
\* [60, 86400]: 3600 when none was given, 60 for one below 60, 86400 for one
\* above 86400 and the given one in between.
C18_SignTtlClamped ==
  sUrl # Undefined =>
    /\ sUrl.key = sKey
    /\ ~IsNaN(sUrl.expiresIn)
    /\ sUrl.expiresIn.v >= MinExpiresIn /\ sUrl.expiresIn.v <= MaxExpiresIn
    /\ sTtl = Undefined => sUrl.expiresIn.v = DefaultExpiresIn
    /\ (sTtl # Undefined /\ ~IsNaN(sTtl)) =>
         /\ sTtl.v < MinExpiresIn => sUrl.expiresIn.v = MinExpiresIn
         /\ sTtl.v > MaxExpiresIn => sUrl.expiresIn.v = MaxExpiresIn
         /\ (sTtl.v >= MinExpiresIn /\ sTtl.v <= MaxExpiresIn)
              => sUrl.expiresIn.v = sTtl.v

(***************************************************************************)
(* SpecCancel: one POST /generate whose client may close the connection.   *)
(***************************************************************************)
\* The client of a request in flight goes away.  The handler registers no
\* listener for 'close' or 'aborted' and passes no AbortSignal on, so
\* nothing else happens.
Disconnect(r) ==
  /\ proc[r].pc \notin {"idle", "done"}
  /\ r \notin closed
  /\ closed' = closed \cup {r}
  /\ UNCHANGED <<genVars, valVars, listVars, signVars, lsVars, dbVars>>

NextCancel ==
  \/ Tick
  \/ \E r \in Single :
       \/ Disconnect(r)
       \/ Receive(r, Bodies)
       \/ SubmitReturn(r, Operations)
       \/ PollReturn(r, Operations)
       \/ FetchReturn(r) \/ StreamUploadDone(r) \/ StreamSigned(r)
       \/ MkdirReturn(r) \/ DownloadReturn(r) \/ WaitFile(r) \/ StatReturn(r)
       \/ DiskUploadDone(r) \/ DiskSigned(r)
       \/ UnlinkAfterUpload(r) \/ UnlinkAfterError(r)
       \/ MetaReturn(r, Metadatas)
       \/ CreateReturn(r)

SpecCancel == Init /\ [][NextCancel]_vars

\* The next step of request r's pipeline.
Pipeline(r) ==
  \/ SubmitReturn(r, Operations)
  \/ PollReturn(r, Operations)
  \/ FetchReturn(r) \/ StreamUploadDone(r) \/ StreamSigned(r)
  \/ MkdirReturn(r) \/ DownloadReturn(r) \/ WaitFile(r) \/ StatReturn(r)
  \/ DiskUploadDone(r) \/ DiskSigned(r)
  \/ UnlinkAfterUpload(r) \/ UnlinkAfterError(r)
  \/ MetaReturn(r, Metadatas)
  \/ CreateReturn(r)

\* C19 (under SpecCancel): a request whose client is gone still has a next
\* step until its handler has run to the end, ends with one response handed
\* to res, a 200 only with its upload completed and its create settled and
\* a 500 only after generateVideo threw, and a record it created is stored.
C19_NoCancellation ==
  \A r \in closed :
    /\ proc[r].pc # "done" => ENABLED Pipeline(r)
    /\ proc[r].pc = "done" =>
         /\ Len(proc[r].sent) = 1
         /\ proc[r].sent[1].status \in {200, 500}
         /\ proc[r].sent[1].status = 200 =>
              /\ proc[r].s3Key \in hist[r].uploaded
              /\ hist[r].created \/ hist[r].createFailed
         /\ proc[r].sent[1].status = 500 => hist[r].failed
    /\ hist[r].created => \E i \in DOMAIN videos : videos[i].by = r

C19_Witness ==
  \E r \in closed :
    /\ hist[r].polls >= 1 /\ hist[r].streamThrew
    /\ hist[r].created /\ Answered(r)
    /\ proc[r].sent[1].status = 200

\* C20: a request has a storage key or has entered an upload path only after
\* a call resolved to a done operation without error and with a video
\* reference; it fetches metadata only with an upload completed; it polls
\* only after its one submit; and a request that failed for a done operation
\* without a video is answered 500 with no key and no upload attempt.
C20_StepOrder ==
  \A r \in DOMAIN proc :
    /\ (\/ Truthy(proc[r].s3Key)
        \/ hist[r].streamTries > 0 \/ hist[r].diskTries > 0
        \/ hist[r].uploaded # {})
         => /\ hist[r].sawDone /\ hist[r].jobError = ""
            /\ Truthy(proc[r].videoRef) /\ Truthy(proc[r].s3Key)
    /\ proc[r].pc \in {"meta", "create"} => proc[r].s3Key \in hist[r].uploaded
    /\ (hist[r].polls >= 1 \/ hist[r].sawDone) => hist[r].submits = 1
    /\ hist[r].cause = <<"No video generated in the response">> =>
         /\ hist[r].sawDone /\ hist[r].failed
         /\ ~Truthy(proc[r].s3Key) /\ ~Truthy(proc[r].videoRef)
         /\ hist[r].streamTries = 0 /\ hist[r].diskTries = 0
         /\ hist[r].uploaded = {} /\ BlobsOf(r) = {}
         /\ Answered(r) /\ proc[r].sent[1].status = 500

C20_Witness ==
  \E r \in DOMAIN proc :
    /\ hist[r].cause = <<"No video generated in the response">>
    /\ hist[r].polls >= 1
    /\ Answered(r)

\* Whether the streaming path of a request has returned its result.
StreamSucceeded(r) ==
  /\ hist[r].streamTries = 1 /\ ~hist[r].streamThrew
  /\ proc[r].pc \in {"meta", "create", "done"}

\* C21: once a request has its video reference, the URI it fetches is the
\* reference's uri if present, else its downloadUri if present, else its
\* fileUrl; with none of them present it never enters the streaming path and
\* enters the disk path once, with one present it enters the streaming path
\* once; after the streaming path succeeded it never entered the disk path;
\* the disk path is entered only with no URI or after the streaming path
\* threw, and nothing is submitted or entered twice.
C21_UploadPathSelection ==
  \A r \in DOMAIN proc :
    LET ref == proc[r].videoRef IN
    /\ hist[r].submits <= 1 /\ hist[r].streamTries <= 1 /\ hist[r].diskTries <= 1
    /\ Truthy(ref) =>
         /\ proc[r].pc = "fetch" =>
              /\ Truthy(ref.uri) => proc[r].downloadUri = ref.uri
              /\ (~Truthy(ref.uri) /\ Truthy(ref.downloadUri))
                   => proc[r].downloadUri = ref.downloadUri
              /\ (~Truthy(ref.uri) /\ ~Truthy(ref.downloadUri))
                   => proc[r].downloadUri = ref.fileUrl
         /\ IF ~Truthy(ref.uri) /\ ~Truthy(ref.downloadUri) /\ ~Truthy(ref.fileUrl)
            THEN hist[r].streamTries = 0 /\ hist[r].diskTries = 1
            ELSE hist[r].streamTries = 1
         /\ StreamSucceeded(r) => hist[r].diskTries = 0
         /\ hist[r].diskTries = 1 => (hist[r].streamTries = 0 \/ hist[r].streamThrew)

C21_Witness ==
  \E r \in DOMAIN proc :
    /\ proc[r].videoRef = VideoRef(Undefined, OtherUri, GoogleUri, Undefined)
    /\ proc[r].downloadUri = OtherUri
    /\ StreamSucceeded(r) /\ Answered(r)

\* Whether the disk path of a request has returned or thrown.
DiskFinished(r) ==
  /\ hist[r].diskTries = 1
  /\ proc[r].pc \in {"meta", "create", "done"}

\* C22: once the disk path of a request that named a temp file has finished,
\* the unlink of that file has settled and, unless it was rejected, the file
\* is not there; whatever the unlink did, a path whose upload was signed
\* goes on with that upload and a path that threw ends the request with a
\* 500 carrying the message of what it threw.
C22_TempFileRemoved ==
  \A r \in DOMAIN proc :
    (DiskFinished(r) /\ Truthy(proc[r].tempPath)) =>
      /\ hist[r].unlinked # "none"
      /\ hist[r].unlinked = "ok" => proc[r].tempPath \notin tempDir
      /\ IF hist[r].diskThrew
         THEN /\ hist[r].failed /\ Answered(r)
              /\ proc[r].sent[1].status = 500
              /\ proc[r].error # <<>>
              /\ proc[r].sent[1].error = GenerateVideoCatch(proc[r].error)
              /\ EndsWith(proc[r].sent[1].error, hist[r].cause)
         ELSE /\ ~hist[r].failed
              /\ proc[r].s3Key \in hist[r].uploaded
              /\ Answered(r) => proc[r].sent[1].status = 200

C22_Witness ==
  \E r \in DOMAIN proc :
    /\ DiskFinished(r) /\ hist[r].diskThrew
    /\ hist[r].cause = <<"upload failed">>
    /\ hist[r].unlinked = "ok"
    /\ Answered(r)

\* C23: a request whose metadata fetch was rejected, or that had no file
\* name to ask for (no name on the reference and no uri that parses), has
\* not failed for it: it goes on to the create with a response of status
\* ACTIVE, its storage key, public URL and prompt, and none of the metadata's
\* fields, and when it is answered the answer is a 200 with that response.
\* It has no file name exactly when the reference has no name and no uri
\* that parses.
C23_MetadataFailureNonFatal ==
  \A r \in DOMAIN proc :
    /\ hist[r].metadata \in {"noName", "rejected"} =>
         /\ ~hist[r].failed
         /\ proc[r].s3Key \in hist[r].uploaded
         /\ proc[r].pc \in {"create", "done"}
         /\ proc[r].response.status = EnumV("ACTIVE")
         /\ proc[r].response.s3Key = proc[r].s3Key
         /\ proc[r].response.publicUrl = proc[r].s3Key
         /\ proc[r].response.prompt = StrV(proc[r].request.prompt)
         /\ \A f \in {"name", "mimeType", "format", "expirationTime", "durationSec"} :
              proc[r].response[f] = Undefined
         /\ Answered(r) => /\ proc[r].sent[1].status = 200
                           /\ proc[r].sent[1].success
                           /\ proc[r].sent[1].data = proc[r].response
    /\ hist[r].metadata # "unasked" =>
         (hist[r].metadata = "noName"
            <=> /\ ~Truthy(proc[r].videoRef.name)
                /\ ~Truthy(proc[r].videoRef.uri) \/ ~proc[r].videoRef.uri.ok)

C23_Witness ==
  \E r \in DOMAIN proc :
    /\ hist[r].metadata = "noName"
    /\ proc[r].videoRef = VideoRef(BadUri, Undefined, Undefined, Undefined)
    /\ Answered(r) /\ proc[r].sent[1].status = 200

\* The provider's domains, and whether a host is one of them or lies under
\* one of them.
ProviderDomains == {"googleapis.com", "googleusercontent.com"}
IsProviderHost(host) == host # <<>> /\ host[Len(host)] \in ProviderDomains

\* C24: a download request carries the API-key header exactly when the host
\* of its URI is a provider domain or lies under one.
C24_ApiKeyOnlyToProvider ==
  \A r \in DOMAIN proc :
    Truthy(proc[r].downloadUri) =>
      (ApiKeyHeader \in proc[r].headers <=> IsProviderHost(proc[r].downloadUri.host))

(***************************************************************************)
(* SpecBucketList: S3Service.listVideos over the objects under a prefix.   *)
(***************************************************************************)
MaxObjects == 3

DateV(k) == [t |-> "object", time |-> k]
\* An entry of ListObjectsV2's Contents; Key and LastModified are optional.
S3Object(key, lastModified) ==
  [Key |-> key, Size |-> NumV(0), LastModified |-> lastModified]
S3Objects ==
  {S3Object(k, m) : k \in {Undefined, S3Key(0), S3Key(1)},
                    m \in {Undefined, DateV(0), DateV(1)}}

RECURSIVE ObjectsUpTo(_)
ObjectsUpTo(k) ==
  IF k = 0 THEN {<<>>}
  ELSE LET shorter == ObjectsUpTo(k - 1) IN
       shorter \cup
       {Append(st, o) : st \in {x \in shorter : Len(x) = k - 1}, o \in S3Objects}
\* The bucket's listings: a key names one object.
BucketListings ==
  {st \in ObjectsUpTo(MaxObjects) :
     \A i, j \in DOMAIN st :
       (i < j /\ st[i].Key = st[j].Key) => st[i].Key = Undefined}

\* The comparator putting the oldest first.
CompareLastModified_OldestFirst(a, b) ==
  IF ~Truthy(a.lastModified) /\ ~Truthy(b.lastModified) THEN 0
  ELSE IF ~Truthy(a.lastModified) THEN 1
  ELSE IF ~Truthy(b.lastModified) THEN 0 - 1
  ELSE a.lastModified.time - b.lastModified.time

\* The comparator of listVideos' sort (s3service.ts:178-184).
CompareLastModified(a, b) ==
  IF ~Truthy(a.lastModified) /\ ~Truthy(b.lastModified) THEN 0
  ELSE IF ~Truthy(a.lastModified) THEN 1
  ELSE IF ~Truthy(b.lastModified) THEN 0 - 1
  ELSE b.lastModified.time - a.lastModified.time

\* Array.prototype.sort, which is stable: x goes before the first element
\* the comparator puts after it.
InsertSorted(sorted, x) ==
  LET later == {i \in DOMAIN sorted : CompareLastModified(sorted[i], x) > 0}
      at == IF later = {} THEN Len(sorted) + 1
            ELSE CHOOSE i \in later : \A j \in later : i <= j
  IN SubSeq(sorted, 1, at - 1) \o <<x>> \o SubSeq(sorted, at, Len(sorted))
RECURSIVE SortResults(_)
SortResults(results) ==
  IF results = <<>> THEN <<>>
  ELSE InsertSorted(SortResults(SubSeq(results, 1, Len(results) - 1)),
                    results[Len(results)])

\* The item pushed for an object with a key (s3service.ts:162-173).
ListItem(obj, expiresIn) ==
  [key |-> obj.Key, url |-> getSignedUrl(obj.Key, expiresIn),
   size |-> IF TypeOf(obj.Size) = "number" THEN obj.Size ELSE Undefined,
   lastModified |-> IfTruthy(obj.LastModified)]

RECURSIVE ProcessObjects(_, _)
\* The for loop over one page: objects without a key are skipped.
ProcessObjects(objects, expiresIn) ==
  IF objects = <<>> THEN <<>>
  ELSE LET rest == ProcessObjects(Tail(objects), expiresIn) IN
       IF ~Truthy(Head(objects).Key) THEN rest
       ELSE <<ListItem(Head(objects), expiresIn)>> \o rest

InitBucketList ==
  /\ lsStore \in BucketListings
  /\ lsPos = 1 /\ lsResults = <<>> /\ lsOut = None
  /\ proc = [r \in Single |-> InitProc]
  /\ hist = [r \in Single |-> InitHist]
  /\ now = 0 /\ bucket = {} /\ videos = <<>> /\ tempDir = {}
  /\ vBody = Undefined /\ vOut = None
  /\ lQuery = Undefined /\ lTtl = {} /\ lSent = <<>> /\ lLog = <<>>
  /\ closed = {}
  /\ sKey = Undefined /\ sTtl = Undefined /\ sUrl = Undefined
  /\ IdleDb

\* One turn of the do-while: the page arrives, its objects are signed and
\* pushed, and the loop goes on with the next token when the page was
\* truncated; after the last page the results are sorted and returned.  The
\* store hands out one or two of the remaining objects per page.
PageReturn ==
  /\ lsOut = None
  /\ LET remaining == Len(lsStore) - lsPos + 1 IN
     \E n \in 0..2 :
       /\ n <= remaining
       /\ n = 0 => remaining = 0
       /\ LET objects == SubSeq(lsStore, lsPos, lsPos + n - 1)
              IsTruncated == n < remaining
              results == lsResults \o ProcessObjects(objects, NumV(DefaultExpiresIn))
          IN /\ lsPos' = lsPos + n
             /\ lsResults' = results
             /\ lsOut' = IF IsTruncated THEN None
                         ELSE [kind |-> "returned", items |-> SortResults(results)]
  /\ UNCHANGED <<lsStore, genVars, valVars, listVars, connVars, signVars, dbVars>>

\* The send of a page or the signing of an object rejects.
PageRejected ==
  /\ lsOut = None
  /\ lsOut' = [kind |-> "threw", items |-> <<>>]
  /\ UNCHANGED <<lsStore, lsPos, lsResults, genVars, valVars, listVars, connVars,
                 signVars, dbVars>>

NextBucketList == PageReturn \/ PageRejected

SpecBucketList == InitBucketList /\ [][NextBucketList]_vars

\* The objects of the store that have a key.
Keyed == {i \in DOMAIN lsStore : Truthy(lsStore[i].Key)}

\* C25 (under SpecBucketList): a listing that returned has read every object
\* of the store, holds exactly one entry for each object with a key, with a
\* URL signed for that key and the object's last-modified time, and is in
\* descending order of last-modified with the entries without one after
\* all the others; until then the loop has not returned.
C25_BucketListComplete ==
  /\ lsOut = None => lsPos <= Len(lsStore) + 1
  /\ (lsOut # None /\ lsOut.kind = "returned") =>
       LET items == lsOut.items IN
       /\ lsPos = Len(lsStore) + 1
       /\ Len(items) = Cardinality(Keyed)
       /\ \A i \in Keyed :
            \E j \in DOMAIN items :
              /\ items[j].key = lsStore[i].Key
              /\ items[j].url.key = lsStore[i].Key
              /\ items[j].lastModified = lsStore[i].LastModified
              /\ \A k \in DOMAIN items : items[k].key = items[j].key => k = j
       /\ \A j, k \in DOMAIN items :
            j < k =>
              /\ Truthy(items[k].lastModified) => Truthy(items[j].lastModified)
              /\ (Truthy(items[j].lastModified) /\ Truthy(items[k].lastModified))
                   => items[j].lastModified.time >= items[k].lastModified.time

C25_Witness ==
  /\ lsOut # None /\ lsOut.kind = "returned"
  /\ Len(lsStore) = 3 /\ Cardinality(Keyed) = 2
  /\ Len(lsOut.items) = 2
  /\ lsOut.items[1].lastModified = DateV(1)
  /\ lsOut.items[2].lastModified = Undefined
  /\ lsStore[1].LastModified = Undefined

isMongoConnected == isConnected /\ readyState = 1

\* connectMongo up to its await: with the flag set and the connection open
\* it returns mongoose; else it registers the listeners and calls
\* mongoose.connect, which starts opening a closed connection.
ConnectCall(c) ==
  /\ caller[c] = "idle"
  /\ IF isConnected /\ readyState = 1
     THEN UNCHANGED <<caller, readyState, dbHist>>
     ELSE /\ caller' = [caller EXCEPT ![c] = "connecting"]
          /\ readyState' = IF readyState = 0 THEN 2 ELSE readyState
          /\ dbHist' = [dbHist EXCEPT !.connectedAt = @ \cup {readyState},
                                      !.lost = FALSE]
  /\ UNCHANGED <<isConnected, genVars, valVars, listVars, connVars, signVars, lsVars>>

\* mongoose.connect resolves: the connection is open and the flag is set.
ConnectResolve(c) ==
  /\ caller[c] = "connecting"
  /\ readyState \in {1, 2}
  /\ readyState' = 1
  /\ isConnected' = TRUE
  /\ caller' = [caller EXCEPT ![c] = "idle"]
  /\ UNCHANGED <<dbHist, genVars, valVars, listVars, connVars, signVars, lsVars>>

\* mongoose.connect rejects: the catch clears the flag and throws on.
ConnectReject(c) ==
  /\ caller[c] = "connecting"
  /\ readyState # 1
  /\ readyState' = IF readyState = 2 THEN 0 ELSE readyState
  /\ isConnected' = FALSE
  /\ caller' = [caller EXCEPT ![c] = "idle"]
  /\ UNCHANGED <<dbHist, genVars, valVars, listVars, connVars, signVars, lsVars>>

\* disconnectMongo up to its await: with the flag clear it returns at once;
\* else it calls connection.close().
DisconnectCall(c) ==
  /\ caller[c] = "idle"
  /\ IF ~isConnected
     THEN /\ dbHist' = [dbHist EXCEPT !.returnedAt = @ \cup {readyState}]
          /\ UNCHANGED <<caller, readyState>>
     ELSE /\ caller' = [caller EXCEPT ![c] = "closing"]
          /\ readyState' = IF readyState = 0 THEN 0 ELSE 3
          /\ dbHist' = [dbHist EXCEPT !.lost = FALSE]
  /\ UNCHANGED <<isConnected, genVars, valVars, listVars, connVars, signVars, lsVars>>

\* connection.close() resolves: the connection is closed, the flag is
\* cleared and disconnectMongo returns.
CloseResolve(c) ==
  /\ caller[c] = "closing"
  /\ readyState' = 0
  /\ isConnected' = FALSE
  /\ caller' = [caller EXCEPT ![c] = "idle"]
  /\ dbHist' = [dbHist EXCEPT !.returnedAt = @ \cup {0}]
  /\ UNCHANGED <<genVars, valVars, listVars, connVars, signVars, lsVars>>

\* connection.close() rejects: disconnectMongo throws, the flag stays.
CloseReject(c) ==
  /\ caller[c] = "closing"
  /\ \E state \in {0, 1} : readyState' = state
  /\ caller' = [caller EXCEPT ![c] = "idle"]
  /\ UNCHANGED <<isConnected, dbHist, genVars, valVars, listVars, connVars, signVars,
                 lsVars>>

\* The listeners are registered once connectMongo has gone past its guard.
Listening == dbHist.connectedAt # {}

\* 'error' on a connection: the listener clears the flag; the connection
\* stays as it is.
ErrorEvent ==
  /\ Listening /\ readyState \in {1, 2} /\ isConnected
  /\ isConnected' = FALSE
  /\ UNCHANGED <<readyState, caller, dbHist, genVars, valVars, listVars, connVars,
                 signVars, lsVars>>

\* 'disconnected': the open connection is lost; the listener clears the flag.
DisconnectedEvent ==
  /\ Listening /\ readyState = 1
  /\ readyState' = 0
  /\ isConnected' = FALSE
  /\ dbHist' = [dbHist EXCEPT !.lost = TRUE]
  /\ UNCHANGED <<caller, genVars, valVars, listVars, connVars, signVars, lsVars>>

\* 'reconnected': the driver has reopened a lost connection; the listener
\* sets the flag.
ReconnectedEvent ==
  /\ Listening /\ readyState = 0 /\ dbHist.lost
  /\ readyState' = 1
  /\ isConnected' = TRUE
  /\ dbHist' = [dbHist EXCEPT !.lost = FALSE]
  /\ UNCHANGED <<caller, genVars, valVars, listVars, connVars, signVars, lsVars>>

InitMongo ==
  /\ IdleDb /\ IdleGateway
  /\ proc = [r \in Single |-> InitProc]
  /\ hist = [r \in Single |-> InitHist]
  /\ now = 0 /\ bucket = {} /\ videos = <<>> /\ tempDir = {}
  /\ vBody = Undefined /\ vOut = None
  /\ lQuery = Undefined /\ lTtl = {} /\ lSent = <<>> /\ lLog = <<>>
  /\ closed = {}
  /\ sKey = Undefined /\ sTtl = Undefined /\ sUrl = Undefined

NextMongo ==
  \/ ErrorEvent \/ DisconnectedEvent \/ ReconnectedEvent
  \/ \E c \in Callers :
       \/ ConnectCall(c) \/ ConnectResolve(c) \/ ConnectReject(c)
       \/ DisconnectCall(c) \/ CloseResolve(c) \/ CloseReject(c)

SpecMongo == InitMongo /\ [][NextMongo]_vars

\* C27 (under SpecMongo): connectMongo never calls mongoose.connect with the
\* connection open.
C27_ConnectOnlyWhenNotOpen == 1 \notin dbHist.connectedAt

\* C30 (under SpecMongo): isMongoConnected() holds only with the connection
\* open, and disconnectMongo has never returned without throwing while the
\* connection was open.
C30_FlagTracksConnection ==
  /\ isMongoConnected => readyState = 1
  /\ 1 \notin dbHist.returnedAt

\* The disk path has been entered and has not reached its own upload.
DiskStaging(r) == proc[r].pc \in {"mkdir", "download", "waitFile", "stat", "diskUpload"}

\* C28 (under Spec): a request completes at most one upload, and the disk
\* path is never under way with an upload of the request already completed.
C28_AtMostOneUpload ==
  \A r \in DOMAIN proc :
    /\ hist[r].uploads <= 1
    /\ DiskStaging(r) => hist[r].uploads = 0

\* C29 (under Spec): a request answered with 500 has no object in the
\* bucket.
C29_FailedLeavesNoBlob ==
  \A r \in DOMAIN proc :
    (proc[r].pc = "done" /\ proc[r].sent[1].status = 500) => BlobsOf(r) = {}

C4_Witness ==
  /\ lSent # <<>>
  /\ lQuery = CharsV(<<"9", "9", "9", "9", "9", "9">>)
  /\ lTtl = {NumV(MaxExpiresIn)}
  /\ lSent[1].status = 200
  /\ Len(lSent[1].data) >= 1

====
